---- MODULE Spec2Model ----
(***************************************************************************)
(* Model of the MCP template server: the Protocol Adapter built by         *)
(* createMCPServer (tool / resource registries and the four request        *)
(* handlers) and the Session Router of the Streamable-HTTP binding         *)
(* (startHTTPTransport).                                                   *)
(***************************************************************************)
EXTENDS Integers, Sequences, FiniteSets, Bags, TLC

VARIABLES
    tools,       \* the Tool[] given to createMCPServer
    resources,   \* the Resource[] given to createMCPServer
    adapterOut,  \* the last request served by the Protocol Adapter and its outcome
    transports,  \* the Map<string, StreamableHTTPServerTransport>, in insertion order
    tr,          \* the StreamableHTTPServerTransport instances created so far
    reqs,        \* the bag of HTTP requests in flight, each with its handler's position
    last,        \* the handler step of the current event-loop turn: the action, and
                 \* the request it acted on with the response it has got
    shutdown,    \* the SIGINT handler: its position and the entries it has visited
    argv,        \* process.argv.slice(2)
    startup      \* the { mode, port } parseArgs has returned, once it has run

cliVars == <<argv, startup>>
adapterVars == <<tools, resources, adapterOut, cliVars>>
httpVars == <<transports, tr, reqs, last, shutdown>>

vars == <<tools, resources, adapterOut, transports, tr, reqs, last, shutdown, argv, startup>>

(***************************************************************************)
(* Bounds                                                                  *)
(***************************************************************************)
MaxTools == 2
MaxResources == 2
MaxArgs == 3
MaxTransports == 2
MaxInFlight == 2

(***************************************************************************)
(* JavaScript values that reach the tool handlers                          *)
(***************************************************************************)
Absent == [t |-> "absent", v |-> ""]
Str(s) == [t |-> "string", v |-> s]
Num(s) == [t |-> "number", v |-> s]

MessageStrings == {"hi", ""}
TimezoneStrings == {"UTC", "America/New_York", "", "Mars/Phobos"}
ValidTimeZones == {"UTC", "America/New_York"}
Clock == {"Sunday, November 1, 2026 at 10:00:00 AM", "Monday, November 2, 2026 at 9:30:00 PM"}

MessageValues == {Absent, Num("42")} \cup {Str(s) : s \in MessageStrings}
TimezoneValues == {Absent, Num("5")} \cup {Str(s) : s \in TimezoneStrings}

\* request.params.arguments: undefined, or an object that may carry the keys
\* message and timezone (one of them, or both)
UndefinedArgs == [kind |-> "undefined", message |-> Absent, timezone |-> Absent]
ArgsSet ==
    {UndefinedArgs} \cup
    [kind : {"object"}, message : MessageValues, timezone : {Absent}] \cup
    [kind : {"object"}, message : {Absent}, timezone : TimezoneValues] \cup
    [kind : {"object"}, message : {Str("hi")}, timezone : {Str("UTC")}]

(***************************************************************************)
(* Outcomes of an async handler: a returned result or a thrown value       *)
(***************************************************************************)
\* a thrown value: an Error object with its message, or any other value with
\* the string String(value) yields
NoThrown == [isErrorObject |-> FALSE, message |-> "", string |-> ""]
ErrorObject(msg) == [isErrorObject |-> TRUE, message |-> msg, string |-> "Error: " \o msg]
PlainValue(s) == [isErrorObject |-> FALSE, message |-> "", string |-> s]

Return(items, isErr) ==
    [kind |-> "return", isError |-> isErr, items |-> items, thrown |-> NoThrown]
Throw(v) ==
    [kind |-> "throw", isError |-> FALSE, items |-> <<>>, thrown |-> v]

TextContent(s) == [type |-> "text", text |-> s]

(***************************************************************************)
(* Startup configuration: serverConfig and parseArgs                       *)
(***************************************************************************)
serverConfig == [name |-> "mcp-template", version |-> "1.0.0"]

\* the command-line words tried
ArgWords == {"--http", "--port", "8080", "0", "-1", "12abc", "abc"}

DigitChars == <<"0", "1", "2", "3", "4", "5", "6", "7", "8", "9">>
IsDigit(c) == \E d \in 1..10 : DigitChars[d] = c
DigitOf(c) == (CHOOSE d \in 1..10 : DigitChars[d] = c) - 1

\* the number of leading decimal digits of s from position i on
RECURSIVE DigitRun(_, _)
DigitRun(s, i) ==
    IF i <= Len(s) /\ IsDigit(SubSeq(s, i, i)) THEN 1 + DigitRun(s, i + 1) ELSE 0

\* the value of the n decimal digits of s that start at position i
RECURSIVE DigitsValue(_, _, _)
DigitsValue(s, i, n) ==
    IF n = 0 THEN 0
    ELSE 10 * DigitsValue(s, i, n - 1) + DigitOf(SubSeq(s, i + n - 1, i + n - 1))

NaN == [nan |-> TRUE, n |-> 0]
Number(n) == [nan |-> FALSE, n |-> n]

\* parseInt(word, 10): an optional sign and the longest run of digits after
\* it; NaN without a digit, also for undefined (a word past the end of args)
parseInt(word) ==
    IF word.t # "string" THEN NaN
    ELSE LET s == word.v
             signed == Len(s) >= 1 /\ SubSeq(s, 1, 1) \in {"-", "+"}
             from == IF signed THEN 2 ELSE 1
             n == DigitRun(s, from)
         IN IF n = 0 THEN NaN
            ELSE IF signed /\ SubSeq(s, 1, 1) = "-"
                 THEN Number(0 - DigitsValue(s, from, n))
                 ELSE Number(DigitsValue(s, from, n))

\* args.includes(word)
includes(args, word) == \E i \in 1..Len(args) : args[i] = word

\* args.indexOf(word), 1-based; 0 when absent
indexOf(args, word) ==
    IF includes(args, word)
    THEN CHOOSE i \in 1..Len(args) : args[i] = word /\ \A j \in 1..(i - 1) : args[j] # word
    ELSE 0

\* args[i]: undefined past the end
At(args, i) == IF i \in 1..Len(args) THEN Str(args[i]) ELSE Absent

DefaultPort == 3001

\* parseArgs: `x || 3001` falls back for NaN and for 0
parseArgs(args) ==
    [mode |-> IF includes(args, "--http") THEN "http" ELSE "stdio",
     port |-> IF includes(args, "--port")
              THEN LET parsed == parseInt(At(args, indexOf(args, "--port") + 1)) IN
                   IF parsed.nan \/ parsed.n = 0 THEN DefaultPort ELSE parsed.n
              ELSE DefaultPort]

NotParsed == [mode |-> "", port |-> 0]

(***************************************************************************)
(* Zod schemas of the two example tools                                    *)
(***************************************************************************)
\* z.object({ message: z.string() }).safeParse(args)
EchoToolSchema(args) ==
    IF args.kind # "object"
    THEN [success |-> FALSE, error |-> "ZodError: expected object, received undefined"]
    ELSE IF args.message.t # "string"
    THEN [success |-> FALSE, error |-> "ZodError: message: expected string, received " \o args.message.t]
    ELSE [success |-> TRUE, error |-> ""]

\* z.object({ timezone: z.string().optional() }).safeParse(args)
GetTimeToolSchema(args) ==
    IF args.kind # "object"
    THEN [success |-> FALSE, error |-> "ZodError: expected object, received undefined"]
    ELSE IF args.timezone.t \notin {"string", "absent"}
    THEN [success |-> FALSE, error |-> "ZodError: timezone: expected string, received " \o args.timezone.t]
    ELSE [success |-> TRUE, error |-> ""]

(***************************************************************************)
(* Tool handlers                                                           *)
(***************************************************************************)
\* an echo handler that skips the schema check
echoHandlerNoValidation(args) ==
    Return(<<TextContent("Echo: " \o args.message.v)>>, FALSE)

echoHandler(args) ==
    LET parsed == EchoToolSchema(args) IN
    IF ~parsed.success
    THEN Throw(ErrorObject("Invalid arguments: " \o parsed.error))
    ELSE Return(<<TextContent("Echo: " \o args.message.v)>>, FALSE)

\* date.toLocaleString("en-US", { timeZone, dateStyle, timeStyle })
toLocaleString(now, timezone) ==
    IF timezone \in ValidTimeZones
    THEN Return(<<TextContent(now)>>, FALSE)
    ELSE Throw(ErrorObject("Invalid time zone specified: " \o timezone))

\* a get_time handler without the `|| "UTC"` default
getTimeHandlerNoDefault(args, now) ==
    LET parsed == GetTimeToolSchema(args) IN
    IF ~parsed.success
    THEN Throw(ErrorObject("Invalid arguments: " \o parsed.error))
    ELSE LET timezone == IF args.timezone.t = "string" THEN args.timezone.v ELSE "undefined"
             timeString == toLocaleString(now, timezone)
         IN IF timeString.kind = "throw"
            THEN timeString
            ELSE Return(<<TextContent("Current time in " \o timezone \o ": "
                                      \o timeString.items[1].text)>>, FALSE)

getTimeHandler(args, now) ==
    LET parsed == GetTimeToolSchema(args) IN
    IF ~parsed.success
    THEN Throw(ErrorObject("Invalid arguments: " \o parsed.error))
    ELSE LET timezone == IF args.timezone.t = "string" /\ args.timezone.v # ""
                         THEN args.timezone.v ELSE "UTC"
             timeString == toLocaleString(now, timezone)
         IN IF timeString.kind = "throw"
            THEN timeString
            ELSE Return(<<TextContent("Current time in " \o timezone \o ": "
                                      \o timeString.items[1].text)>>, FALSE)

\* Handlers a template user may register besides the two examples
CustomHandlers == {"custom_ok", "custom_throws_error", "custom_rejects_value"}
HandlerIds == {"get_time", "echo"} \cup CustomHandlers

\* tool.handler(args)
RunToolHandler(handler, args, now) ==
    CASE handler = "echo" -> echoHandler(args)
      [] handler = "get_time" -> getTimeHandler(args, now)
      [] handler = "custom_ok" -> Return(<<TextContent("custom result")>>, FALSE)
      [] handler = "custom_throws_error" -> Throw(ErrorObject("custom failure"))
      [] OTHER -> Throw(PlainValue("rejected"))

(***************************************************************************)
(* Tool and resource definitions                                           *)
(***************************************************************************)
getTimeTool ==
    [name |-> "get_time",
     description |-> "Get the current time in a specified timezone",
     inputSchema |-> "timezone?: string",
     handler |-> "get_time"]

echoTool ==
    [name |-> "echo",
     description |-> "Echo back a message",
     inputSchema |-> "message: string",
     handler |-> "echo"]

infoText == "MCP Template Server v1.0.0 ..."

infoResource ==
    [uri |-> "mcp://info",
     name |-> "Server Information",
     description |-> "Information about this MCP server",
     mimeType |-> "text/plain",
     handler |-> "info"]

CustomToolNames == {"echo", "reverse"}
RequestedToolNames == {"get_time", "echo", "reverse", "nope"}

ToolDefs ==
    {getTimeTool, echoTool} \cup
    [name : CustomToolNames, description : {"custom tool"}, inputSchema : {"{}"},
     handler : CustomHandlers]

RequestedUris == {"mcp://info", "mcp://notes", "mcp://missing"}

ResourceDefs ==
    {infoResource,
     [uri |-> "mcp://info", name |-> "custom", description |-> "custom resource",
      mimeType |-> "text/plain", handler |-> "custom_contents"],
     [uri |-> "mcp://notes", name |-> "custom", description |-> "custom resource",
      mimeType |-> "text/plain", handler |-> "custom_throws"]}

\* resource.handler(uri)
RunResourceHandler(handler, uri) ==
    CASE handler = "info" ->
           Return(<<[uri |-> uri, mimeType |-> "text/plain", text |-> infoText]>>, FALSE)
      [] handler = "custom_contents" ->
           Return(<<[uri |-> uri, mimeType |-> "text/plain", text |-> "custom contents"]>>, FALSE)
      [] OTHER -> Throw(ErrorObject("resource failure"))

SeqsUpTo(S, n) == UNION {[1..k -> S] : k \in 0..n}

(***************************************************************************)
(* Registries: new Map(list.map(x => [key, x])); a later entry with the    *)
(* same key replaces the earlier one                                       *)
(***************************************************************************)
\* a registry in which the first definition of a name wins
toolRegistryFirstWins(ts, name) ==
    LET hits == {i \in 1..Len(ts) : ts[i].name = name} IN
    IF hits = {} THEN 0 ELSE CHOOSE i \in hits : \A j \in hits : i <= j

\* index in `tools` of the definition toolRegistry.get(name) yields, 0 if none
toolRegistry(ts, name) ==
    LET hits == {i \in 1..Len(ts) : ts[i].name = name} IN
    IF hits = {} THEN 0 ELSE CHOOSE i \in hits : \A j \in hits : j <= i

resourceRegistry(rs, uri) ==
    LET hits == {i \in 1..Len(rs) : rs[i].uri = uri} IN
    IF hits = {} THEN 0 ELSE CHOOSE i \in hits : \A j \in hits : j <= i

(***************************************************************************)
(* The four request handlers of createMCPServer                            *)
(***************************************************************************)
\* a list-tools handler that lists the values of the registry, one per name
ListToolsFromRegistry(ts) ==
    LET kept == SelectSeq([i \in 1..Len(ts) |-> i],
                          LAMBDA i : toolRegistry(ts, ts[i].name) = i)
    IN Return([k \in 1..Len(kept) |->
                 [name |-> ts[kept[k]].name, description |-> ts[kept[k]].description,
                  inputSchema |-> ts[kept[k]].inputSchema]], FALSE)

ListTools(ts) ==
    Return([i \in 1..Len(ts) |->
              [name |-> ts[i].name, description |-> ts[i].description,
               inputSchema |-> ts[i].inputSchema]], FALSE)

\* the try block of the call-tool handler
CallToolTry(ts, name, args, now) ==
    LET tool == toolRegistry(ts, name) IN
    IF tool = 0
    THEN Throw(ErrorObject("Unknown tool: " \o name))
    ELSE RunToolHandler(ts[tool].handler, args, now)

\* a catch block that returns the bare error message
CallToolCatchNoPrefix(error) ==
    LET errorMessage == IF error.isErrorObject THEN error.message ELSE error.string IN
    Return(<<TextContent(errorMessage)>>, TRUE)

\* the catch block: error instanceof Error ? error.message : String(error)
CallToolCatch(error) ==
    LET errorMessage == IF error.isErrorObject THEN error.message ELSE error.string IN
    Return(<<TextContent("Error: " \o errorMessage)>>, TRUE)

\* a call-tool handler that lets the fault through
CallToolNoCatch(ts, name, args, now) ==
    CallToolTry(ts, name, args, now)

\* a call-tool handler that drops the "Unknown tool" check
CallToolNoLookupCheck(ts, name, args, now) ==
    IF toolRegistry(ts, name) = 0
    THEN Return(<<>>, FALSE)
    ELSE LET r == CallToolTry(ts, name, args, now) IN
         IF r.kind = "throw" THEN CallToolCatch(r.thrown) ELSE r

CallTool(ts, name, args, now) ==
    LET r == CallToolTry(ts, name, args, now) IN
    IF r.kind = "throw" THEN CallToolCatch(r.thrown) ELSE r

ListResources(rs) ==
    Return([i \in 1..Len(rs) |->
              [uri |-> rs[i].uri, name |-> rs[i].name,
               description |-> rs[i].description, mimeType |-> rs[i].mimeType]], FALSE)

\* a read-resource handler that answers an unknown uri with empty contents
ReadResourceSilent(rs, uri) ==
    LET resource == resourceRegistry(rs, uri) IN
    IF resource = 0
    THEN Return(<<>>, FALSE)
    ELSE RunResourceHandler(rs[resource].handler, uri)

ReadResource(rs, uri) ==
    LET resource == resourceRegistry(rs, uri) IN
    IF resource = 0
    THEN Throw(ErrorObject("Unknown resource: " \o uri))
    ELSE RunResourceHandler(rs[resource].handler, uri)

(***************************************************************************)
(* The monolithic reference server: the same four handlers with the tools  *)
(* and the resource written inline                                         *)
(***************************************************************************)
RefListTools ==
    Return(<<[name |-> "get_time",
              description |-> "Get the current time in a specified timezone",
              inputSchema |-> "timezone?: string"],
             [name |-> "echo",
              description |-> "Echo back a message",
              inputSchema |-> "message: string"]>>, FALSE)

\* the try block of the reference call-tool handler
RefCallToolTry(name, args, now) ==
    IF name = "get_time"
    THEN LET parsed == GetTimeToolSchema(args) IN
         IF ~parsed.success
         THEN Throw(ErrorObject("Invalid arguments: " \o parsed.error))
         ELSE LET timezone == IF args.timezone.t = "string" /\ args.timezone.v # ""
                              THEN args.timezone.v ELSE "UTC"
                  timeString == toLocaleString(now, timezone)
              IN IF timeString.kind = "throw"
                 THEN timeString
                 ELSE Return(<<TextContent("Current time in " \o timezone \o ": "
                                           \o timeString.items[1].text)>>, FALSE)
    ELSE IF name = "echo"
    THEN LET parsed == EchoToolSchema(args) IN
         IF ~parsed.success
         THEN Throw(ErrorObject("Invalid arguments: " \o parsed.error))
         ELSE Return(<<TextContent("Echo: " \o args.message.v)>>, FALSE)
    ELSE Throw(ErrorObject("Unknown tool: " \o name))

RefCallTool(name, args, now) ==
    LET r == RefCallToolTry(name, args, now) IN
    IF r.kind = "throw"
    THEN Return(<<TextContent("Error: " \o (IF r.thrown.isErrorObject
                                            THEN r.thrown.message ELSE r.thrown.string))>>, TRUE)
    ELSE r

RefListResources ==
    Return(<<[uri |-> "mcp://info", name |-> "Server Information",
              description |-> "Information about this MCP server",
              mimeType |-> "text/plain"]>>, FALSE)

RefReadResource(uri) ==
    IF uri = "mcp://info"
    THEN Return(<<[uri |-> uri, mimeType |-> "text/plain",
                   text |-> "MCP Template Server v1.0.0 ..."]>>, FALSE)
    ELSE Throw(ErrorObject("Unknown resource: " \o uri))

(***************************************************************************)
(* Protocol Adapter as a state machine: one action per request category    *)
(***************************************************************************)
NoRequest ==
    [op |-> "none", key |-> "", args |-> UndefinedArgs, now |-> "", out |-> Return(<<>>, FALSE)]

\* createMCPServer(config, tools, resources): any tool list with the example
\* resource list, or the example tool list with any resource list
InitAdapter ==
    /\ argv = <<>>
    /\ startup = NotParsed
    /\ transports = <<>>
    /\ tr = <<>>
    /\ reqs = EmptyBag
    /\ last = [act |-> "none"]
    /\ shutdown = [pc |-> "running", visited |-> {}]
    /\ \/ /\ tools \in SeqsUpTo(ToolDefs, MaxTools)
          /\ resources = <<infoResource>>
       \/ /\ tools = <<getTimeTool, echoTool>>
          /\ resources \in SeqsUpTo(ResourceDefs, MaxResources)
    /\ adapterOut = NoRequest

ListToolsRequest ==
    /\ adapterOut' = [op |-> "list-tools", key |-> "", args |-> UndefinedArgs, now |-> "",
                      out |-> ListTools(tools)]
    /\ UNCHANGED <<tools, resources, httpVars, cliVars>>

CallToolRequest ==
    \E name \in RequestedToolNames, args \in ArgsSet, now \in Clock :
        /\ adapterOut' = [op |-> "call-tool", key |-> name, args |-> args, now |-> now,
                          out |-> CallTool(tools, name, args, now)]
        /\ UNCHANGED <<tools, resources, httpVars, cliVars>>

ListResourcesRequest ==
    /\ adapterOut' = [op |-> "list-resources", key |-> "", args |-> UndefinedArgs, now |-> "",
                      out |-> ListResources(resources)]
    /\ UNCHANGED <<tools, resources, httpVars, cliVars>>

ReadResourceRequest ==
    \E uri \in RequestedUris :
        /\ adapterOut' = [op |-> "read-resource", key |-> uri, args |-> UndefinedArgs, now |-> "",
                          out |-> ReadResource(resources, uri)]
        /\ UNCHANGED <<tools, resources, httpVars, cliVars>>

NextAdapter ==
    \/ ListToolsRequest
    \/ CallToolRequest
    \/ ListResourcesRequest
    \/ ReadResourceRequest

SpecAdapter == InitAdapter /\ [][NextAdapter]_vars

(***************************************************************************)
(* Startup: main() calls parseArgs on the command line                     *)
(***************************************************************************)
InitArgs ==
    /\ argv \in SeqsUpTo(ArgWords, MaxArgs)
    /\ startup = NotParsed
    /\ tools = <<getTimeTool, echoTool>>
    /\ resources = <<infoResource>>
    /\ adapterOut = NoRequest
    /\ transports = <<>>
    /\ tr = <<>>
    /\ reqs = EmptyBag
    /\ last = [act |-> "none"]
    /\ shutdown = [pc |-> "running", visited |-> {}]

\* const { mode, port } = parseArgs()
ParseArgs ==
    /\ startup = NotParsed
    /\ startup' = parseArgs(argv)
    /\ UNCHANGED <<tools, resources, adapterOut, argv, httpVars>>

NextArgs == ParseArgs

SpecArgs == InitArgs /\ [][NextArgs]_vars

\* C17: parseArgs yields mode "http" exactly when "--http" occurs and "stdio"
\* otherwise; port 3001 without "--port"; with "--port", the integer the next
\* argument parses to, for every integer, and 3001 when that argument is missing
\* or does not parse.
C17_ParseArgsAsStated ==
    startup # NotParsed =>
        /\ startup.mode = (IF \E i \in 1..Len(argv) : argv[i] = "--http" THEN "http" ELSE "stdio")
        /\ IF ~\E i \in 1..Len(argv) : argv[i] = "--port"
           THEN startup.port = 3001
           ELSE LET i == CHOOSE k \in 1..Len(argv) :
                             argv[k] = "--port" /\ \A j \in 1..(k - 1) : argv[j] # "--port"
                    n == parseInt(At(argv, i + 1))
                IN IF n.nan THEN startup.port = 3001 ELSE startup.port = n.n

(***************************************************************************)
(* Properties of the Protocol Adapter                                      *)
(***************************************************************************)
IsRegisteredTool(name) == \E i \in 1..Len(tools) : tools[i].name = name
IsRegisteredUri(uri) == \E i \in 1..Len(resources) : resources[i].uri = uri

IsErrorEnvelope(out) ==
    /\ out.kind = "return"
    /\ out.isError
    /\ Len(out.items) = 1
    /\ out.items[1].type = "text"

\* C1 as stated: a call-tool for a name that is not in the registry returns
\* an isError result whose message is "Unknown tool: <name>".
C1_UnknownToolMessageAsStated ==
    (adapterOut.op = "call-tool" /\ ~IsRegisteredTool(adapterOut.key)) =>
        /\ IsErrorEnvelope(adapterOut.out)
        /\ adapterOut.out.items[1].text = "Unknown tool: " \o adapterOut.key

\* C1 amended: a call-tool for a name that is not in the registry, with any
\* arguments, returns (never throws) an isError result whose single text is
\* "Error: Unknown tool: <name>".
C1_UnknownToolEnvelope ==
    (adapterOut.op = "call-tool" /\ ~IsRegisteredTool(adapterOut.key)) =>
        /\ IsErrorEnvelope(adapterOut.out)
        /\ adapterOut.out.items[1].text = "Error: Unknown tool: " \o adapterOut.key

C1_Witness ==
    /\ adapterOut.op = "call-tool"
    /\ adapterOut.key = "nope"
    /\ tools = <<getTimeTool, echoTool>>
    /\ adapterOut.args.message = Str("hi")
    /\ adapterOut.out.isError

\* C2: a call-tool for a registered tool, with any arguments, completes with a
\* returned result: the handler's own result when the handler returns, and an
\* isError envelope with one text message when the handler throws or rejects
\* (a schema failure included); nothing is thrown to the protocol runtime.
C2_ToolFaultsAreWrapped ==
    (adapterOut.op = "call-tool" /\ IsRegisteredTool(adapterOut.key)) =>
        \E i \in 1..Len(tools) :
            /\ tools[i].name = adapterOut.key
            /\ LET h == RunToolHandler(tools[i].handler, adapterOut.args, adapterOut.now) IN
               /\ adapterOut.out.kind = "return"
               /\ h.kind = "return" => adapterOut.out = h
               /\ h.kind = "throw" =>
                      /\ IsErrorEnvelope(adapterOut.out)
                      /\ SubSeq(adapterOut.out.items[1].text, 1, 7) = "Error: "

C2_Witness ==
    /\ adapterOut.op = "call-tool"
    /\ adapterOut.key = "echo"
    /\ tools = <<getTimeTool, echoTool>>
    /\ adapterOut.args.message = Num("42")
    /\ IsErrorEnvelope(adapterOut.out)

\* C3: a read-resource for a uri that is not in the registry raises to the
\* protocol runtime and returns nothing; for a registered uri its outcome is
\* that of the registered resource's handler invoked with that uri.
C3_ReadResourceRaisesOrDelegates ==
    adapterOut.op = "read-resource" =>
        IF ~IsRegisteredUri(adapterOut.key)
        THEN /\ adapterOut.out.kind = "throw"
             /\ adapterOut.out.items = <<>>
             /\ ~adapterOut.out.isError
        ELSE \E i \in 1..Len(resources) :
                /\ resources[i].uri = adapterOut.key
                /\ \A j \in (i + 1)..Len(resources) : resources[j].uri # adapterOut.key
                /\ adapterOut.out = RunResourceHandler(resources[i].handler, adapterOut.key)

C3_Witness ==
    /\ adapterOut.op = "read-resource"
    /\ adapterOut.key = "mcp://missing"
    /\ resources = <<infoResource>>
    /\ adapterOut.out.kind = "throw"
    /\ adapterOut.out.thrown = ErrorObject("Unknown resource: mcp://missing")

\* the definition a call-tool for adapterOut.key resolves to: the last one of
\* that name in the list
Resolved == CHOOSE i \in 1..Len(tools) :
                /\ tools[i].name = adapterOut.key
                /\ \A j \in (i + 1)..Len(tools) : tools[j].name # adapterOut.key

IsStringMessage(args) == args.kind = "object" /\ args.message.t = "string"

\* C14: a call that reaches the echo handler with a string message m returns a
\* non-error result whose single text is "Echo: " followed by m; with a missing
\* or non-string message (or no argument object) the handler raises, which the
\* call-tool handler reports as an "Invalid arguments" error.
C14_EchoReturnsMessage ==
    (/\ adapterOut.op = "call-tool"
     /\ IsRegisteredTool(adapterOut.key)
     /\ tools[Resolved].handler = "echo") =>
        IF IsStringMessage(adapterOut.args)
        THEN adapterOut.out =
                 Return(<<TextContent("Echo: " \o adapterOut.args.message.v)>>, FALSE)
        ELSE /\ echoHandler(adapterOut.args).kind = "throw"
             /\ IsErrorEnvelope(adapterOut.out)
             /\ SubSeq(adapterOut.out.items[1].text, 1, 26) = "Error: Invalid arguments: "

C14_Witness ==
    /\ adapterOut.op = "call-tool"
    /\ adapterOut.key = "echo"
    /\ tools = <<getTimeTool, echoTool>>
    /\ adapterOut.args.message = Str("hi")
    /\ adapterOut.out = Return(<<TextContent("Echo: hi")>>, FALSE)

SuppliedTimezone(args) ==
    IF args.kind = "object" /\ args.timezone.t = "string" THEN args.timezone.v ELSE "UTC"

\* C15 as stated: every call of get_time returns the text "Current time in T:
\* <date-time>" where T is the supplied timezone string, or "UTC" when none is
\* supplied.
C15_GetTimeTextAsStated ==
    (/\ adapterOut.op = "call-tool"
     /\ IsRegisteredTool(adapterOut.key)
     /\ tools[Resolved].handler = "get_time"
     /\ adapterOut.args.timezone.t \in {"string", "absent"}) =>
        adapterOut.out =
            Return(<<TextContent("Current time in " \o SuppliedTimezone(adapterOut.args)
                                 \o ": " \o adapterOut.now)>>, FALSE)

\* C15: a call of get_time with an argument object returns "Current time in T:
\* <date-time>" with T the supplied timezone when that is a time zone name the
\* runtime knows, and T = "UTC" when the timezone is missing or the empty string;
\* with an unknown time zone name, a timezone that is not a string, or no
\* argument object, the call returns an isError result instead.
C15_GetTimeText ==
    (/\ adapterOut.op = "call-tool"
     /\ IsRegisteredTool(adapterOut.key)
     /\ tools[Resolved].handler = "get_time") =>
        LET args == adapterOut.args
            T == IF args.timezone.t = "string" /\ args.timezone.v # ""
                 THEN args.timezone.v ELSE "UTC"
        IN IF /\ args.kind = "object"
              /\ args.timezone.t \in {"string", "absent"}
              /\ T \in ValidTimeZones
           THEN adapterOut.out =
                    Return(<<TextContent("Current time in " \o T \o ": " \o adapterOut.now)>>,
                           FALSE)
           ELSE /\ IsErrorEnvelope(adapterOut.out)
                /\ SubSeq(adapterOut.out.items[1].text, 1, 7) = "Error: "

\* get_time called with the empty string as timezone answers for UTC
C15_Witness ==
    /\ adapterOut.op = "call-tool"
    /\ adapterOut.key = "get_time"
    /\ tools = <<getTimeTool, echoTool>>
    /\ adapterOut.args.timezone = Str("")
    /\ \E now \in Clock :
           adapterOut.out = Return(<<TextContent("Current time in UTC: " \o now)>>, FALSE)

C20_LaterDefinitionWins ==
    /\ (adapterOut.op = "call-tool" /\ IsRegisteredTool(adapterOut.key)) =>
           LET h == RunToolHandler(tools[Resolved].handler, adapterOut.args, adapterOut.now)
           IN adapterOut.out = IF h.kind = "throw" THEN CallToolCatch(h.thrown) ELSE h
    /\ (adapterOut.op = "read-resource" /\ IsRegisteredUri(adapterOut.key)) =>
           LET last_ == CHOOSE i \in 1..Len(resources) :
                            /\ resources[i].uri = adapterOut.key
                            /\ \A j \in (i + 1)..Len(resources) : resources[j].uri # adapterOut.key
           IN adapterOut.out = RunResourceHandler(resources[last_].handler, adapterOut.key)

\* echo is defined twice, and the call is answered by the second definition
C20_Witness ==
    /\ Len(tools) = 2
    /\ tools[1] = echoTool
    /\ tools[2].name = "echo"
    /\ tools[2].handler = "custom_ok"
    /\ adapterOut.op = "call-tool"
    /\ adapterOut.key = "echo"
    /\ adapterOut.args.message = Str("hi")
    /\ adapterOut.out = Return(<<TextContent("custom result")>>, FALSE)

\* C29: for every entry list-tools reports, call-tool with the entry's name is
\* answered by the handler of the definition the entry was made from, for any
\* list of definitions; likewise for list-resources and read-resource.
C29_ListedEntryIsCalled ==
    /\ adapterOut.op = "call-tool" =>
           \A i \in 1..Len(tools) :
               tools[i].name = adapterOut.key =>
                   LET h == RunToolHandler(tools[i].handler, adapterOut.args, adapterOut.now)
                   IN adapterOut.out = IF h.kind = "throw" THEN CallToolCatch(h.thrown) ELSE h
    /\ adapterOut.op = "read-resource" =>
           \A i \in 1..Len(resources) :
               resources[i].uri = adapterOut.key =>
                   adapterOut.out = RunResourceHandler(resources[i].handler, adapterOut.key)

(***************************************************************************)
(* Session Router of the HTTP binding (startHTTPTransport)                 *)
(***************************************************************************)
\* the mcp-session-id header: 0 is an absent (or empty) header; a client may
\* send any id, issued or not
NoSession == 0
SessionIds == 1..MaxTransports
HeaderValues == {NoSession} \cup SessionIds

NoTransport == 0

\* Map operations on the session table (a JavaScript Map keeps insertion order)
MapHas(m, sid) == \E i \in 1..Len(m) : m[i].sid = sid
\* a lookup that yields the transport of the oldest entry for any known key
MapGetAnyEntry(m, sid) == IF MapHas(m, sid) THEN m[1].t ELSE NoTransport

MapGet(m, sid) == IF MapHas(m, sid)
                  THEN m[CHOOSE i \in 1..Len(m) : m[i].sid = sid].t
                  ELSE NoTransport
MapKeys(m) == {m[i].sid : i \in 1..Len(m)}
MapSet(m, sid, t) ==
    IF MapHas(m, sid)
    THEN [i \in 1..Len(m) |-> IF m[i].sid = sid THEN [sid |-> sid, t |-> t] ELSE m[i]]
    ELSE Append(m, [sid |-> sid, t |-> t])
MapDelete(m, sid) == SelectSeq(m, LAMBDA e : e.sid # sid)

\* the session ids already handed out
IssuedIds(trs) == {trs[i].sessionId : i \in 1..Len(trs)} \ {NoSession}

\* a generator that may repeat an id it has handed out
sessionIdGeneratorRepeating(trs, t) == SessionIds

\* sessionIdGenerator: () => randomUUID(), a fresh id on every call. The ids
\* are opaque tokens that are only compared for equality, and the transport
\* calls the generator once, so the id generated for the t-th transport is
\* represented by t.
sessionIdGenerator(trs, t) == {t}

\* a callback that stores the session under another key
onsessioninitializedWrongKey(m, newSessionId, t) ==
    MapSet(m, IF newSessionId = 1 THEN 2 ELSE 1, t)

\* a callback that rebuilds the table around the new session
onsessioninitializedReplacesTable(m, newSessionId, t) == <<[sid |-> newSessionId, t |-> t]>>

\* onsessioninitialized: transports.set(newSessionId, transport)
onsessioninitialized(m, newSessionId, t) == MapSet(m, newSessionId, t)

\* a closure callback that forgets to remove the entry
oncloseNoDelete(m, trs, t) == m

\* a closure callback that clears the table instead of deleting its own key
oncloseClearsTable(m, trs, t) == <<>>

\* transport.onclose: remove the entry of the transport's own session id
onclose(m, trs, t) ==
    LET sid == trs[t].sessionId IN
    IF sid # NoSession /\ MapHas(m, sid) THEN MapDelete(m, sid) ELSE m

\* a branch selection that lets any request without a session id initialize
PostBranchNoInitCheck(m, sessionId, isInit) ==
    IF sessionId # NoSession /\ MapHas(m, sessionId) THEN "reuse"
    ELSE IF sessionId = NoSession THEN "init"
    ELSE "reject"

\* a branch selection that creates a transport for an initialization request
\* even when it carries a known session id
PostBranchInitFirst(m, sessionId, isInit) ==
    IF isInit THEN "init"
    ELSE IF sessionId # NoSession /\ MapHas(m, sessionId) THEN "reuse"
    ELSE "reject"

\* a branch selection without the `!sessionId` test: an initialization request
\* that carries an unknown session id creates a transport
PostBranchUnknownIdInits(m, sessionId, isInit) ==
    IF sessionId # NoSession /\ MapHas(m, sessionId) THEN "reuse"
    ELSE IF isInit THEN "init"
    ELSE "reject"

\* the if / else if / else of app.post("/mcp")
PostBranch(m, sessionId, isInit) ==
    IF sessionId # NoSession /\ MapHas(m, sessionId) THEN "reuse"
    ELSE IF sessionId = NoSession /\ isInit THEN "init"
    ELSE "reject"

\* a session check that only looks for the header
InvalidSessionHeaderOnly(m, sessionId) == sessionId = NoSession

\* the guard of app.get("/mcp") and app.delete("/mcp")
InvalidSession(m, sessionId) == sessionId = NoSession \/ ~MapHas(m, sessionId)

\* an HTTP request, the position of its handler and the response it has got
NewRequest(verb, sessionId, isInit) ==
    [verb |-> verb, sid |-> sessionId, isInit |-> isInit, branch |-> "", pc |-> "start",
     t |-> NoTransport, status |-> 0, code |-> 0, body |-> "", headersSent |-> FALSE,
     nresp |-> 0]

NoReq == NewRequest("", NoSession, FALSE)

\* res.status(status).json({jsonrpc, error: {code, message}, id: null}) or .send(body)
Respond(r, status, code, body) ==
    [r EXCEPT !.status = status, !.code = code, !.body = body, !.headersSent = TRUE,
              !.nresp = @ + 1, !.pc = "done"]

\* new StreamableHTTPServerTransport({...}); transport.onclose = ...
NewTransport ==
    [sessionId |-> NoSession, hasOnclose |-> TRUE, connected |-> FALSE, closed |-> FALSE,
     closeCalled |-> FALSE]

InFlight == BagToSet(reqs)
CanAccept == BagCardinality(reqs) < MaxInFlight
Add(req) == reqs (+) SetToBag({req})
Remove(req) == reqs (-) SetToBag({req})
Replace(req, by) == (reqs (-) SetToBag({req})) (+) SetToBag({by})

\* the step taken in this turn of the event loop
Step(act, req) == [act |-> act, req |-> req]
Idle == Step("none", NoReq)

\* the process is alive and the event loop is between two turns
Ready == shutdown.pc # "exited" /\ last = Idle

InitHttp ==
    /\ tools = <<getTimeTool, echoTool>>
    /\ resources = <<infoResource>>
    /\ adapterOut = NoRequest
    /\ argv = <<"--http">>
    /\ startup = parseArgs(argv)
    /\ transports = <<>>
    /\ tr = <<>>
    /\ reqs = EmptyBag
    /\ last = Idle
    /\ shutdown = [pc |-> "running", visited |-> {}]

\* a health route that reports a version other than the configured one
HealthStaleVersion ==
    /\ Ready
    /\ last' = Step("Health", Respond(NewRequest("HEALTH", NoSession, FALSE), 200, 0,
                                      "status: ok, server: mcp-template, version: 0.9.0"))
    /\ UNCHANGED <<adapterVars, transports, tr, reqs, shutdown>>

\* app.get("/health")
Health ==
    /\ Ready
    /\ last' = Step("Health", Respond(NewRequest("HEALTH", NoSession, FALSE), 200, 0,
                                      "status: ok, server: mcp-template, version: 1.0.0"))
    /\ UNCHANGED <<adapterVars, transports, tr, reqs, shutdown>>

\* app.post("/mcp"), reuse branch: look the transport up and call its
\* handleRequest (the router does not read the body again, so the request in
\* flight is kept without the isInitializeRequest(req.body) flag)
PostReuse ==
    \E sessionId \in HeaderValues, isInit \in BOOLEAN :
        /\ Ready
        /\ CanAccept
        /\ PostBranch(transports, sessionId, isInit) = "reuse"
        /\ LET req == [NewRequest("POST", sessionId, isInit) EXCEPT
                          !.branch = "reuse", !.pc = "delegated",
                          !.t = MapGet(transports, sessionId)]
           IN /\ reqs' = Add([req EXCEPT !.isInit = FALSE])
              /\ last' = Step("PostReuse", req)
        /\ UNCHANGED <<adapterVars, transports, tr, shutdown>>

\* an initialization branch that stores the new transport in the table as soon
\* as it is created, before the handshake
PostInitEagerInsert ==
    \E sessionId \in HeaderValues, isInit \in BOOLEAN :
        /\ Ready
        /\ CanAccept
        /\ Len(tr) < MaxTransports
        /\ PostBranch(transports, sessionId, isInit) = "init"
        /\ tr' = Append(tr, NewTransport)
        /\ transports' = MapSet(transports, Len(tr) + 1, Len(tr) + 1)
        /\ LET req == [NewRequest("POST", sessionId, isInit) EXCEPT
                          !.branch = "init", !.pc = "connecting", !.t = Len(tr) + 1]
           IN /\ reqs' = Add(req)
              /\ last' = Step("PostInit", req)
        /\ UNCHANGED <<adapterVars, shutdown>>

\* an initialization branch that keeps one transport instance for all sessions
PostInitSharedTransport ==
    \E sessionId \in HeaderValues, isInit \in BOOLEAN :
        /\ Ready
        /\ CanAccept
        /\ Len(tr) < MaxTransports
        /\ PostBranch(transports, sessionId, isInit) = "init"
        /\ tr' = IF tr = <<>> THEN <<NewTransport>> ELSE tr
        /\ LET req == [NewRequest("POST", sessionId, isInit) EXCEPT
                          !.branch = "init", !.pc = "connecting", !.t = 1]
           IN /\ reqs' = Add(req)
              /\ last' = Step("PostInit", req)
        /\ UNCHANGED <<adapterVars, transports, shutdown>>

\* an initialization branch that hands the request to the transport without
\* `await server.connect(transport)`
PostInitSkipsConnect ==
    \E sessionId \in HeaderValues, isInit \in BOOLEAN :
        /\ Ready
        /\ CanAccept
        /\ Len(tr) < MaxTransports
        /\ PostBranch(transports, sessionId, isInit) = "init"
        /\ tr' = Append(tr, NewTransport)
        /\ LET req == [NewRequest("POST", sessionId, isInit) EXCEPT
                          !.branch = "init", !.pc = "handshaking", !.t = Len(tr) + 1]
           IN /\ reqs' = Add(req)
              /\ last' = Step("PostInit", req)
        /\ UNCHANGED <<adapterVars, transports, shutdown>>

\* app.post("/mcp"), initialization branch up to `await server.connect(transport)`
PostInit ==
    \E sessionId \in HeaderValues, isInit \in BOOLEAN :
        /\ Ready
        /\ CanAccept
        /\ Len(tr) < MaxTransports
        /\ PostBranch(transports, sessionId, isInit) = "init"
        /\ tr' = Append(tr, NewTransport)
        /\ LET req == [NewRequest("POST", sessionId, isInit) EXCEPT
                          !.branch = "init", !.pc = "connecting", !.t = Len(tr) + 1]
           IN /\ reqs' = Add(req)
              /\ last' = Step("PostInit", req)
        /\ UNCHANGED <<adapterVars, transports, shutdown>>

\* app.post("/mcp"), else branch: 400 with JSON-RPC error -32000
PostReject ==
    \E sessionId \in HeaderValues, isInit \in BOOLEAN :
        /\ Ready
        /\ PostBranch(transports, sessionId, isInit) = "reject"
        /\ last' = Step("PostReject",
                        Respond([NewRequest("POST", sessionId, isInit) EXCEPT !.branch = "reject"],
                                400, -32000,
                                "Bad Request: No valid session ID provided or not an initialization request"))
        /\ UNCHANGED <<adapterVars, transports, tr, reqs, shutdown>>

\* `await server.connect(transport)` resolves; transport.handleRequest is called
ConnectResolves ==
    \E req \in InFlight :
        /\ Ready
        /\ req.pc = "connecting"
        /\ tr' = [tr EXCEPT ![req.t].connected = TRUE]
        /\ reqs' = Replace(req, [req EXCEPT !.pc = "handshaking"])
        /\ last' = Step("ConnectResolves", [req EXCEPT !.pc = "handshaking"])
        /\ UNCHANGED <<adapterVars, transports, shutdown>>

\* a catch block that answers without looking at res.headersSent
PostCatchAlwaysResponds(req) == Respond(req, 500, -32603, "Internal server error")

\* the catch block of app.post("/mcp")
PostCatch(req) ==
    IF ~req.headersSent
    THEN Respond(req, 500, -32603, "Internal server error")
    ELSE [req EXCEPT !.pc = "done"]

\* a catch block that answers without looking at res.headersSent
DeleteCatchAlwaysResponds(req) ==
    Respond(req, 500, 0, "Error processing session termination")

\* the catch block of app.delete("/mcp")
DeleteCatch(req) ==
    IF ~req.headersSent
    THEN Respond(req, 500, 0, "Error processing session termination")
    ELSE [req EXCEPT !.pc = "done"]

\* `await server.connect(transport)` rejects
ConnectRejects ==
    \E req \in InFlight :
        /\ Ready
        /\ req.pc = "connecting"
        /\ reqs' = Remove(req)
        /\ last' = Step("ConnectRejects", PostCatch(req))
        /\ UNCHANGED <<adapterVars, transports, tr, shutdown>>

\* the transport completes the initialize handshake: it takes a session id from
\* sessionIdGenerator and calls onsessioninitialized
SessionInitialized ==
    \E req \in InFlight :
        /\ Ready
        /\ req.pc = "handshaking"
        /\ \E newSessionId \in sessionIdGenerator(tr, req.t) :
            /\ tr' = [tr EXCEPT ![req.t].sessionId = newSessionId]
            /\ transports' = onsessioninitialized(transports, newSessionId, req.t)
        /\ reqs' = Replace(req, [req EXCEPT !.pc = "delegated"])
        /\ last' = Step("SessionInitialized", [req EXCEPT !.pc = "delegated"])
        /\ UNCHANGED <<adapterVars, shutdown>>

\* the transport handles a DELETE: it closes itself, which fires onclose
DeleteCloses ==
    \E req \in InFlight :
        /\ Ready
        /\ req.verb = "DELETE"
        /\ req.pc = "delegated"
        /\ transports' = onclose(transports, tr, req.t)
        /\ tr' = [tr EXCEPT ![req.t].closed = TRUE, ![req.t].closeCalled = TRUE]
        /\ reqs' = Replace(req, [req EXCEPT !.pc = "closed"])
        /\ last' = Step("DeleteCloses", [req EXCEPT !.pc = "closed"])
        /\ UNCHANGED <<adapterVars, shutdown>>

\* `await transport.handleRequest(...)` resolves: the transport has answered
HandleRequestResolves ==
    \E req \in InFlight :
        /\ Ready
        /\ req.pc \in {"handshaking", "delegated", "closed"}
        /\ reqs' = Remove(req)
        /\ last' = Step("HandleRequestResolves",
                        [req EXCEPT !.status = 200, !.body = "transport",
                                    !.headersSent = TRUE, !.nresp = @ + 1, !.pc = "done"])
        /\ UNCHANGED <<adapterVars, transports, tr, shutdown>>

\* `await transport.handleRequest(...)` rejects, before or after the transport
\* has started a response
HandleRequestRejects ==
    \E req \in InFlight, started \in BOOLEAN :
        /\ Ready
        /\ req.pc \in {"handshaking", "delegated", "closed"}
        /\ reqs' = Remove(req)
        /\ LET thrown == IF started
                         THEN [req EXCEPT !.status = 200, !.body = "transport",
                                          !.headersSent = TRUE, !.nresp = @ + 1]
                         ELSE req
           IN last' = Step("HandleRequestRejects",
                           CASE thrown.verb = "POST" -> PostCatch(thrown)
                             [] thrown.verb = "DELETE" -> DeleteCatch(thrown)
                             [] OTHER -> [thrown EXCEPT !.pc = "unhandled"])
        /\ UNCHANGED <<adapterVars, transports, tr, shutdown>>

\* app.get("/mcp") and app.delete("/mcp") with a missing or unknown session id
SessionRequestRejected ==
    \E verb \in {"GET", "DELETE"}, sessionId \in HeaderValues :
        /\ Ready
        /\ InvalidSession(transports, sessionId)
        /\ last' = Step("SessionRequestRejected",
                        Respond(NewRequest(verb, sessionId, FALSE), 400, 0,
                                "Invalid or missing session ID"))
        /\ UNCHANGED <<adapterVars, transports, tr, reqs, shutdown>>

\* a delegation in which the DELETE route removes the table entry itself
SessionRequestDelegatedEagerDelete ==
    \E verb \in {"GET", "DELETE"}, sessionId \in HeaderValues :
        /\ Ready
        /\ CanAccept
        /\ ~InvalidSession(transports, sessionId)
        /\ LET req == [NewRequest(verb, sessionId, FALSE) EXCEPT
                          !.branch = "reuse", !.pc = "delegated",
                          !.t = MapGet(transports, sessionId)]
           IN /\ reqs' = Add(req)
              /\ last' = Step("SessionRequestDelegated", req)
        /\ transports' = IF verb = "DELETE" THEN MapDelete(transports, sessionId) ELSE transports
        /\ UNCHANGED <<adapterVars, tr, shutdown>>

\* app.get("/mcp") and app.delete("/mcp") with a known session id: delegate
SessionRequestDelegated ==
    \E verb \in {"GET", "DELETE"}, sessionId \in HeaderValues :
        /\ Ready
        /\ CanAccept
        /\ ~InvalidSession(transports, sessionId)
        /\ LET req == [NewRequest(verb, sessionId, FALSE) EXCEPT
                          !.branch = "reuse", !.pc = "delegated",
                          !.t = MapGet(transports, sessionId)]
           IN /\ reqs' = Add(req)
              /\ last' = Step("SessionRequestDelegated", req)
        /\ UNCHANGED <<adapterVars, transports, tr, shutdown>>

\* process.on("SIGINT"): the handler starts iterating transports.entries()
Sigint ==
    /\ Ready
    /\ shutdown.pc = "running"
    /\ shutdown' = [pc |-> "closing", visited |-> {}]
    /\ last' = Step("Sigint", NoReq)
    /\ UNCHANGED <<adapterVars, transports, tr, reqs>>

\* the entries the iterator has still to visit, in insertion order
Unvisited == SelectSeq(transports, LAMBDA e : e.sid \notin shutdown.visited)

\* a loop without the try/catch: a close() that throws ends the iteration
ShutdownCloseAbortsOnThrow ==
    /\ Ready
    /\ shutdown.pc = "closing"
    /\ Unvisited # <<>>
    /\ LET e == Head(Unvisited) IN
        \/ /\ shutdown' = [shutdown EXCEPT !.visited = @ \cup {e.sid}]
           /\ transports' = onclose(transports, tr, e.t)
           /\ tr' = [tr EXCEPT ![e.t].closed = TRUE, ![e.t].closeCalled = TRUE]
           /\ last' = Step("ShutdownClose", [NoReq EXCEPT !.sid = e.sid, !.t = e.t])
        \/ /\ shutdown' = [shutdown EXCEPT !.visited = @ \cup MapKeys(transports)]
           /\ tr' = [tr EXCEPT ![e.t].closeCalled = TRUE]
           /\ UNCHANGED transports
           /\ last' = Step("ShutdownCloseThrows", [NoReq EXCEPT !.sid = e.sid, !.t = e.t])
    /\ UNCHANGED <<adapterVars, reqs>>

\* one turn of the loop: `await transport.close()`, which fires onclose, or
\* throws and is logged
ShutdownClose ==
    /\ Ready
    /\ shutdown.pc = "closing"
    /\ Unvisited # <<>>
    /\ LET e == Head(Unvisited) IN
        /\ shutdown' = [shutdown EXCEPT !.visited = @ \cup {e.sid}]
        /\ \/ /\ transports' = onclose(transports, tr, e.t)
              /\ tr' = [tr EXCEPT ![e.t].closed = TRUE, ![e.t].closeCalled = TRUE]
              /\ last' = Step("ShutdownClose", [NoReq EXCEPT !.sid = e.sid, !.t = e.t])
           \/ /\ tr' = [tr EXCEPT ![e.t].closeCalled = TRUE]
              /\ UNCHANGED transports
              /\ last' = Step("ShutdownCloseThrows", [NoReq EXCEPT !.sid = e.sid, !.t = e.t])
    /\ UNCHANGED <<adapterVars, reqs>>

\* the loop is over: transports.clear(); process.exit(0)
ShutdownExit ==
    /\ Ready
    /\ shutdown.pc = "closing"
    /\ Unvisited = <<>>
    /\ transports' = <<>>
    /\ shutdown' = [shutdown EXCEPT !.pc = "exited"]
    /\ last' = Step("ShutdownExit", NoReq)
    /\ UNCHANGED <<adapterVars, tr, reqs>>

\* the handler returns or suspends at an await: the turn ends and the event
\* loop may run the next handler
TurnEnds ==
    /\ shutdown.pc # "exited"
    /\ last # Idle
    /\ last' = Idle
    /\ UNCHANGED <<adapterVars, transports, tr, reqs, shutdown>>

NextHttp ==
    \/ Health
    \/ PostReuse
    \/ PostInit
    \/ PostReject
    \/ SessionRequestRejected
    \/ SessionRequestDelegated
    \/ ConnectResolves
    \/ ConnectRejects
    \/ SessionInitialized
    \/ DeleteCloses
    \/ HandleRequestResolves
    \/ HandleRequestRejects
    \/ Sigint
    \/ ShutdownClose
    \/ ShutdownExit
    \/ TurnEnds

SpecHttp == InitHttp /\ [][NextHttp]_vars

(***************************************************************************)
(* Properties of the Session Router                                        *)
(***************************************************************************)
\* the step is the arrival of a request: the event loop was idle and a route
\* handler has run up to its first await or to its response
Arrival(verbs) ==
    /\ last = Idle
    /\ last'.req.verb \in verbs
    /\ last'.act \in {"PostReuse", "PostInit", "PostReject",
                      "SessionRequestRejected", "SessionRequestDelegated"}

Transports == 1..Len(tr)
IsLive(t) == ~tr[t].closed
EntriesOf(m) == {m[i] : i \in 1..Len(m)}

\* C4: a POST /mcp with no session-id header and a body that is not an
\* initialization request is answered 400 with JSON-RPC error code -32000;
\* no transport is created or invoked and the session table is unchanged.
C4_PostWithoutSessionRejected ==
    [][(Arrival({"POST"}) /\ last'.req.sid = NoSession /\ ~last'.req.isInit) =>
          /\ last'.act = "PostReject"
          /\ last'.req.status = 400
          /\ last'.req.code = -32000
          /\ last'.req.nresp = 1
          /\ last'.req.t = NoTransport
          /\ UNCHANGED <<transports, tr, reqs>>]_vars

C4_Witness ==
    /\ last.act = "PostReject"
    /\ last.req.sid = NoSession
    /\ ~last.req.isInit
    /\ last.req.status = 400
    /\ Len(transports) = 1

\* C5: a GET or DELETE /mcp whose session id is absent or is not a key of the
\* session table is answered 400 "Invalid or missing session ID", no transport
\* is invoked and the table is unchanged; otherwise the request is delegated
\* to the transport stored under that id.
C5_SessionRequestRouting ==
    [][Arrival({"GET", "DELETE"}) =>
          IF last'.req.sid = NoSession \/ last'.req.sid \notin MapKeys(transports)
          THEN /\ last'.req.status = 400
               /\ last'.req.body = "Invalid or missing session ID"
               /\ last'.req.nresp = 1
               /\ last'.req.t = NoTransport
               /\ UNCHANGED <<transports, tr, reqs>>
          ELSE /\ last'.req.pc = "delegated"
               /\ last'.req.nresp = 0
               /\ [sid |-> last'.req.sid, t |-> last'.req.t] \in EntriesOf(transports)
               /\ last'.req \in BagToSet(reqs')
               /\ UNCHANGED <<transports, tr>>]_vars

C5_Witness ==
    /\ last.act = "SessionRequestRejected"
    /\ last.req.verb = "DELETE"
    /\ last.req.sid # NoSession
    /\ last.req.status = 400
    /\ Len(transports) = 1

\* C6: while the pair (id -> T) put in the table by T's handshake is present,
\* every POST carrying id is delegated to that transport T, and no transport
\* is created for it.
C6_PostReusesSameTransport ==
    [][(Arrival({"POST"}) /\ last'.req.sid \in MapKeys(transports)) =>
          /\ last'.act = "PostReuse"
          /\ last'.req.pc = "delegated"
          /\ last'.req.t \in Transports
          /\ tr[last'.req.t].sessionId = last'.req.sid
          /\ \A u \in Transports : tr[u].sessionId = last'.req.sid => u = last'.req.t
          /\ UNCHANGED <<transports, tr>>]_vars

C6_Witness ==
    /\ last.act = "PostReuse"
    /\ last.req.isInit
    /\ last.req.sid = 2
    /\ last.req.t = 2
    /\ Len(transports) = 2

\* C7: once a session's transport has signalled closure, the session id is
\* not a key of the session table, and a GET or DELETE carrying that id is
\* answered 400.
C7_ClosedSessionIsGone ==
    \A t \in Transports :
        (tr[t].closed /\ tr[t].sessionId # NoSession) =>
            /\ tr[t].sessionId \notin MapKeys(transports)
            /\ (last.req.verb \in {"GET", "DELETE"} /\ last.req.sid = tr[t].sessionId
                /\ last.act \in {"SessionRequestRejected", "SessionRequestDelegated"})
               => last.req.status = 400

C7_Witness ==
    /\ last.act = "SessionRequestRejected"
    /\ last.req.verb = "GET"
    /\ \E t \in Transports : tr[t].closed /\ tr[t].sessionId = last.req.sid

\* C8: at most one live transport is associated with a session id, and no
\* insertion into the session table replaces an entry that holds another
\* live transport.
C8_OneLiveTransportPerSession ==
    [][/\ \A t, u \in 1..Len(tr') :
            (tr'[t].sessionId # NoSession /\ tr'[t].sessionId = tr'[u].sessionId
             /\ ~tr'[t].closed /\ ~tr'[u].closed) => t = u
       /\ \A e \in EntriesOf(transports) :
            (IsLive(e.t) /\ MapHas(transports', e.sid)) => MapGet(transports', e.sid) = e.t
       /\ \A i, j \in 1..Len(transports') :
            transports'[i].sid = transports'[j].sid => i = j]_vars

C8_Witness ==
    /\ Len(transports) = 2
    /\ \A e \in EntriesOf(transports) : IsLive(e.t)
    /\ last.act = "SessionInitialized"

\* the lifecycle of the session of transport t: 1 initializing (created, not
\* in the table), 2 active (in the table), 3 closed or removed from the table
Phase(trs, m, t) ==
    IF trs[t].closed THEN 3
    ELSE IF trs[t].sessionId = NoSession THEN 1
    ELSE IF \E e \in EntriesOf(m) : e.t = t THEN 2
    ELSE 3

C10_NoRouteToInitializingTransport ==
    [][/\ \A t \in 1..Len(tr') :
            tr'[t].sessionId = NoSession =>
                /\ \A e \in EntriesOf(transports') : e.t # t
                /\ \A req \in BagToSet(reqs') : req.branch = "reuse" => req.t # t
       /\ \A e \in EntriesOf(transports') \ EntriesOf(transports) :
            /\ last'.act = "SessionInitialized"
            /\ last'.req.t = e.t
            /\ tr'[e.t].sessionId = e.sid
            /\ tr[e.t].sessionId = NoSession]_vars

C10_Witness ==
    /\ \E req \in InFlight : req.pc = "handshaking" /\ req.t = 2
    /\ last.act = "SessionRequestRejected"
    /\ last.req.sid = 2
    /\ Len(transports) = 1

\* C11 as stated: the table changes only when the initialization path inserts or
\* the closure callback removes; every other step, process shutdown included,
\* leaves it unchanged.
C11_OnlyInsertAndClosureChangeTable ==
    [][transports' # transports =>
          \/ last'.act = "SessionInitialized"
          \/ last'.act \in {"DeleteCloses", "ShutdownClose"}]_vars

\* C11: the table changes only when the initialization path inserts one entry,
\* when the closure callback of a transport removes that transport's entry, or
\* when the shutdown handler clears the table before exiting; POST reuse, POST
\* rejection, the arrival of a GET or DELETE, the health check and a close() that
\* throws leave it unchanged.
C11_TableMutators ==
    [][transports' # transports =>
          \/ /\ last'.act = "SessionInitialized"
             /\ \E sid \in SessionIds :
                    /\ ~MapHas(transports, sid)
                    /\ transports' = Append(transports, [sid |-> sid, t |-> last'.req.t])
          \/ /\ last'.act \in {"DeleteCloses", "ShutdownClose"}
             /\ transports' = MapDelete(transports, tr[last'.req.t].sessionId)
          \/ /\ last'.act = "ShutdownExit"
             /\ transports' = <<>>]_vars

\* the shutdown handler has cleared a table that still held the entry of a
\* transport whose close() threw
C11_Witness ==
    /\ last.act = "ShutdownExit"
    /\ transports = <<>>
    /\ \E t \in Transports : tr[t].closeCalled /\ ~tr[t].closed

\* C12: the shutdown loop calls close() on the transport of every entry it
\* visits, whether or not an earlier close() threw; once the process has exited
\* the table is empty and close() has been called on every transport that was
\* ever in the table.
C12_ShutdownClosesEveryTransport ==
    /\ \A t \in Transports :
           tr[t].sessionId \in shutdown.visited => tr[t].closeCalled
    /\ shutdown.pc = "exited" =>
           /\ transports = <<>>
           /\ \A t \in Transports : tr[t].sessionId # NoSession => tr[t].closeCalled

\* the loop has just closed one transport although close() on a transport it
\* visited before had thrown
C12_Witness ==
    /\ last.act = "ShutdownClose"
    /\ tr[last.req.t].closed
    /\ \E t \in Transports \ {last.req.t} :
           /\ tr[t].sessionId \in shutdown.visited
           /\ tr[t].closeCalled
           /\ ~tr[t].closed
           /\ MapHas(transports, tr[t].sessionId)

\* C13: a POST whose connect or handleRequest raised has exactly one response:
\* the transport's own when it had started one, otherwise 500 with JSON-RPC
\* error -32603 "Internal server error"; no POST ever has two responses.
C13_PostFaultAnsweredOnce ==
    /\ last.req.verb = "POST" => last.req.nresp <= 1
    /\ last.act \in {"ConnectRejects", "HandleRequestRejects"} /\ last.req.verb = "POST" =>
           /\ last.req.branch \in {"reuse", "init"}
           /\ last.req.nresp = 1
           /\ \/ /\ last.req.body = "transport"
                 /\ last.req.status = 200
              \/ /\ last.req.status = 500
                 /\ last.req.code = -32603
                 /\ last.req.body = "Internal server error"

\* handleRequest raised on the initialization path after the transport had
\* started its response
C13_Witness ==
    /\ last.act = "HandleRequestRejects"
    /\ last.req.verb = "POST"
    /\ last.req.branch = "init"
    /\ last.req.body = "transport"
    /\ last.req.nresp = 1

SessionsOfStep == {last'.req.sid} \cup
                  (IF last'.req.t \in 1..Len(tr') THEN {tr'[last'.req.t].sessionId} ELSE {})

\* C21: a request carrying session id A, the initialization that produces A and
\* the closure of A's transport leave the table entry of every other session id B
\* as it was, and a request carrying B is delegated to the transport whose
\* session id is B.
C21_SessionsAreDisjoint ==
    [][last'.act # "ShutdownExit" =>
          /\ \A B \in SessionIds \ SessionsOfStep :
                {e \in EntriesOf(transports') : e.sid = B}
                    = {e \in EntriesOf(transports) : e.sid = B}
          /\ last'.act \in {"PostReuse", "SessionRequestDelegated"} =>
                /\ last'.req.t \in Transports
                /\ tr[last'.req.t].sessionId = last'.req.sid]_vars

\* a session is closed by its DELETE while a request of another session is in
\* flight and that session's entry stays in the table
C21_Witness ==
    /\ last.act = "DeleteCloses"
    /\ Len(transports) = 1
    /\ transports[1].sid # tr[last.req.t].sessionId
    /\ \E r \in InFlight : r.sid = transports[1].sid /\ r.t = transports[1].t

\* C22: when the delegation of a DELETE raises, the request has one response:
\* the transport's own when it had started one, otherwise 500 with the plain
\* text "Error processing session termination"; unless the transport has closed
\* itself, the session's entry is still in the table.
C22_DeleteFaultAnswered ==
    (last.act = "HandleRequestRejects" /\ last.req.verb = "DELETE") =>
        /\ last.req.nresp = 1
        /\ \/ /\ last.req.body = "transport"
              /\ last.req.status = 200
           \/ /\ last.req.status = 500
              /\ last.req.code = 0
              /\ last.req.body = "Error processing session termination"
        /\ ~tr[last.req.t].closed =>
              \E i \in 1..Len(transports) :
                  transports[i] = [sid |-> last.req.sid, t |-> last.req.t]

\* the delegation raised before any response and the entry is still there
C22_Witness ==
    /\ last.act = "HandleRequestRejects"
    /\ last.req.verb = "DELETE"
    /\ last.req.status = 500
    /\ ~tr[last.req.t].closed
    /\ MapHas(transports, last.req.sid)

\* C23: a transport is created only by a POST with no session-id header whose
\* body is an initialization request; a POST whose session id is not a key of
\* the table is answered 400 / -32000 whatever its body, and a POST with a known
\* session id creates no transport.
C23_OnlyHeaderlessInitCreates ==
    [][/\ Len(tr') # Len(tr) =>
              /\ Len(tr') = Len(tr) + 1
              /\ last'.act = "PostInit"
              /\ last'.req.verb = "POST"
              /\ last'.req.sid = NoSession
              /\ last'.req.isInit
       /\ (Arrival({"POST"}) /\ last'.req.sid # NoSession) =>
              /\ tr' = tr
              /\ transports' = transports
              /\ ~MapHas(transports, last'.req.sid) =>
                     /\ last'.req.status = 400
                     /\ last'.req.code = -32000
                     /\ last'.req.nresp = 1]_vars

\* an initialization request carrying the id of a closed session is rejected
C23_Witness ==
    /\ last.act = "PostReject"
    /\ last.req.isInit
    /\ last.req.sid # NoSession
    /\ last.req.status = 400
    /\ \E t \in Transports : tr[t].closed /\ tr[t].sessionId = last.req.sid

\* C24: a transport whose handshake-completion callback has not fired has no
\* entry in the table; in particular an initialization that failed in connect
\* or in the handshake has left none behind.
C24_FailedInitLeavesNoEntry ==
    /\ \A t \in Transports :
           tr[t].sessionId = NoSession => \A i \in 1..Len(transports) : transports[i].t # t
    /\ (/\ last.act \in {"ConnectRejects", "HandleRequestRejects"}
        /\ last.req.branch = "init"
        /\ tr[last.req.t].sessionId = NoSession) =>
           /\ \A i \in 1..Len(transports) : transports[i].t # last.req.t
           /\ last.req.sid = NoSession

\* connect rejected for a second initialization while the first session is in
\* the table
C24_Witness ==
    /\ last.act = "ConnectRejects"
    /\ last.req.branch = "init"
    /\ last.req.t = 2
    /\ ~tr[2].connected
    /\ Len(transports) = 1
    /\ transports[1].t = 1

\* C25: in the turn in which a POST for a known session, a GET or a DELETE is
\* handed to a transport, that transport is the live transport the table holds
\* under the request's session id.
C25_DelegatesToCurrentEntry ==
    last.act \in {"PostReuse", "SessionRequestDelegated"} =>
        /\ \E i \in 1..Len(transports) :
               transports[i] = [sid |-> last.req.sid, t |-> last.req.t]
        /\ ~tr[last.req.t].closed
        /\ tr[last.req.t].sessionId = last.req.sid

\* a GET is delegated to the transport of the second of two sessions
C25_Witness ==
    /\ last.act = "SessionRequestDelegated"
    /\ last.req.verb = "GET"
    /\ Len(transports) = 2
    /\ last.req.sid = transports[2].sid
    /\ last.req.t = transports[2].t

\* C26: every initialization POST gets a new transport of its own; the
\* handshake-completion callback stores the transport of its own request; and
\* while the process runs the table holds exactly one entry for every transport
\* whose handshake has completed and that has not closed.
C26_EachInitOwnsItsTransport ==
    /\ last.act = "PostInit" =>
           /\ last.req.t = Len(tr)
           /\ tr[last.req.t] = NewTransport
           /\ \A r \in InFlight : r.t = last.req.t => r = last.req
    /\ last.act = "SessionInitialized" =>
           transports[Len(transports)] =
               [sid |-> tr[last.req.t].sessionId, t |-> last.req.t]
    /\ shutdown.pc # "exited" =>
           /\ \A t \in Transports :
                  (tr[t].sessionId # NoSession /\ ~tr[t].closed) =>
                      \E i \in 1..Len(transports) :
                          transports[i] = [sid |-> tr[t].sessionId, t |-> t]
           /\ Len(transports) =
                  Cardinality({t \in Transports : tr[t].sessionId # NoSession /\ ~tr[t].closed})

\* two initializations interleave: the transport created second completes its
\* handshake first, and both entries are in the table
C26_Witness ==
    /\ last.act = "SessionInitialized"
    /\ last.req.t = 1
    /\ Len(transports) = 2
    /\ transports[1].t = 2
    /\ transports[2].t = 1

\* C27: every transport in the table has its closure callback set and has been
\* connected to the server.
C27_EntriesAreConnected ==
    \A i \in 1..Len(transports) :
        /\ tr[transports[i].t].hasOnclose
        /\ tr[transports[i].t].connected

\* a handshake has just put a connected transport into the table
C27_Witness ==
    /\ last.act = "SessionInitialized"
    /\ tr[last.req.t].connected
    /\ tr[last.req.t].hasOnclose
    /\ transports[Len(transports)].t = last.req.t
    /\ \E r \in InFlight : r.pc = "connecting"

\* C28: fired for a transport that is about to be closed by a DELETE, the
\* closure callback removes the one entry keyed by that transport's session id,
\* which stores that transport, and keeps the others; fired for a transport
\* without a session id, or again after it has fired, it leaves the table as it
\* is.
C28_OncloseRemovesOwnEntryOnce ==
    LET t == last.req.t
        after == onclose(transports, tr, t)
    IN /\ (last.act = "SessionRequestDelegated" /\ last.req.verb = "DELETE") =>
              /\ Len(after) = Len(transports) - 1
              /\ \A i \in 1..Len(transports) :
                     IF transports[i].sid = tr[t].sessionId
                     THEN transports[i].t = t
                     ELSE \E j \in 1..Len(after) : after[j] = transports[i]
              /\ onclose(after, tr, t) = after
       /\ last.act \in {"PostInit", "ConnectResolves", "ConnectRejects"} => after = transports
       /\ last.act \in {"DeleteCloses", "ShutdownClose"} => after = transports

\* a DELETE arrives for one of two sessions: the callback would remove that
\* session's entry and keep the other
C28_Witness ==
    /\ last.act = "SessionRequestDelegated"
    /\ last.req.verb = "DELETE"
    /\ Len(transports) = 2
    /\ onclose(transports, tr, last.req.t) = <<transports[2]>>

\* C30: once the process has exited, close() has been called on, or closure has
\* been signalled by, every transport the router created, those still
\* initializing included.
C30_ExitClosesEveryCreatedTransport ==
    shutdown.pc = "exited" =>
        \A t \in Transports : tr[t].closeCalled \/ tr[t].closed

====
